---- MODULE Spec2Model ----
(***************************************************************************)
(* GpxToKml (src/src/gpx-to-kml.cpp): Main's producer loop, the            *)
(* boost::asio worker pool that runs one ConvertFile per candidate file,   *)
(* and the pure helpers NormalizeFilename and the coordinate rendering of  *)
(* WriteFile.                                                              *)
(*                                                                         *)
(* Text is modelled as a sequence of one-character strings.                *)
(***************************************************************************)
EXTENDS Integers, Sequences, FiniteSets, TLC

\* Bounds of the model.
MaxFiles == 3
MaxWorkers == 2
MaxNameLen == 2
MaxPoints == 2

VARIABLES
    threads,                     \* threads.size()
    input_is_dir,                \* input_dir is a directory that can be listed
    output_is_dir,               \* boost::filesystem::is_directory(output_dir)
    preexisting,                 \* output paths holding a file before the run
    fs,                          \* output directory: path -> content
    pc,                          \* where the producer thread (Main) is
    listed,                      \* directory entries the iterator has yielded
    entry,                       \* the entry the loop is filtering
    task,                        \* the handlers posted to io_service, in order
    num_processed_successfully,
    num_failed,
    num_in_progress,
    stopped,                     \* io_service.stop() was called
    summary,                     \* the "Succeeded: n Failed: n" line, once printed
    outcome,                     \* "running", "exit0", "exit1" or "crash"
    nf,                          \* one run of WriteFile's path resolution
    cs,                          \* one run of ParseCoordinates and the rendering
    pd                           \* one run of ConvertFile's parse of a document

\* What the run is given and never changes.
args == << threads, input_is_dir, output_is_dir, preexisting >>

main == << args, fs, pc, listed, entry, task,
           num_processed_successfully, num_failed, num_in_progress, stopped,
           summary, outcome >>

pure == << nf, cs, pd >>

vars == << main, pure >>

----------------------------------------------------------------------------
\* Text helpers.

ToLowerChar(c) ==
    CASE c = "G" -> "g"
      [] c = "P" -> "p"
      [] c = "X" -> "x"
      [] c = "K" -> "k"
      [] c = "M" -> "m"
      [] c = "L" -> "l"
      [] OTHER -> c

\* boost::algorithm::to_lower_copy
to_lower_copy(s) == [i \in 1..Len(s) |-> ToLowerChar(s[i])]

----------------------------------------------------------------------------
\* The input directory and the output directory.

\* The output paths two tracks can resolve to, and the one of them at which
\* a file may exist before the run.
Paths == {"2023-06-01 A.kml", "2023-06-02 B.kml"}

MayPreexist == {"2023-06-01 A.kml"}

\* What the directory iterator can yield: a subdirectory, a file of another
\* type, and .gpx files in either case.
Entries ==
    { [regular |-> FALSE, ext |-> <<".", "g", "p", "x">>],
      [regular |-> TRUE, ext |-> <<".", "k", "m", "l">>],
      [regular |-> TRUE, ext |-> <<".", "g", "p", "x">>],
      [regular |-> TRUE, ext |-> <<".", "G", "P", "X">>] }

\* No entry at hand.
NoEntry == [regular |-> FALSE, ext |-> <<>>]

\* Lines 219-225: the entries the loop does not skip.
IsCandidate(e) ==
    /\ e.regular
    /\ to_lower_copy(e.ext) = <<".", "g", "p", "x">>

\* What a candidate file can hold, as ConvertFile finds when it reads it:
\*   "bad"      a document that breaks a rule the parser reports by throwing,
\*   "nulltext" a document whose name element has no text (GetText() is null),
\*   "ok"       a document the parser accepts, resolving to the output path.
Docs ==
    { [doc |-> "bad", path |-> "none"], [doc |-> "nulltext", path |-> "none"] }
    \cup { [doc |-> "ok", path |-> p] : p \in Paths }

\* boost::filesystem::exists(output_path)
exists(p) == fs[p] # "absent"

----------------------------------------------------------------------------
\* Tasks.

Tasks == 1..Len(task)

\* The handlers a worker thread is executing.
Running == {t \in Tasks : task[t].st \notin {"enqueued", "done"}}

\* A handler as posted. The fields after st record what its run met, for
\* as long as the handler holds it:
\*   doc, path  the document read and the output path it resolved to,
\*   pre        a file existed at the path when the handler started,
\*   io         what fopen and SaveFile did,
\*   err        the exception the handler caught,
\*   res        the counter the handler incremented,
\*   cls        what the run amounted to, once it is counted.
NewTask ==
    [st |-> "enqueued", doc |-> "none", path |-> "none", pre |-> FALSE,
     io |-> "none", err |-> <<>>, res |-> "none", cls |-> "none"]

\* What a run amounted to: the document was structurally invalid, the output
\* path was taken, the file could not be opened or saved, or the document
\* was valid and its file written.
Class(r) ==
    CASE r.doc \in {"bad", "nulltext"} -> "invalid"
      [] r.err # <<>> /\ r.err[1] = "exists" -> "collision"
      [] r.io = "savefail" -> "savefail"
      [] r.io = "openfail" -> "openfail"
      [] OTHER -> "valid"

\* The handler after line 239 or 244: ConvertFile's locals and the caught
\* exception are gone.
Counted(r, res) ==
    [NewTask EXCEPT !.st = "dec", !.res = res, !.cls = Class(r), !.pre = r.pre]

\* The handler after it returned.
Returned(r) ==
    [NewTask EXCEPT !.st = "done", !.res = r.res,
                    !.cls = IF r.cls \in {"valid", "invalid"} THEN r.cls ELSE "other"]

Alive == outcome = "running"

----------------------------------------------------------------------------
\* Init: main() has parsed the flags and calls Main.

NoResolution == [pc |-> "off"]
NoRendering == [pc |-> "off"]
NoParse == [pc |-> "off"]

Init ==
    /\ threads \in 1..MaxWorkers
    /\ input_is_dir \in BOOLEAN
    /\ output_is_dir \in BOOLEAN
    /\ preexisting \in SUBSET MayPreexist
    /\ fs = [p \in Paths |-> IF p \in preexisting THEN "old" ELSE "absent"]
    /\ pc = "start"
    /\ listed = 0
    /\ entry = NoEntry
    /\ task = <<>>
    /\ num_processed_successfully = 0
    /\ num_failed = 0
    /\ num_in_progress = 0
    /\ stopped = FALSE
    /\ summary = <<>>
    /\ outcome = "running"
    /\ nf = NoResolution
    /\ cs = NoRendering
    /\ pd = NoParse

----------------------------------------------------------------------------
\* The producer: Main, lines 193-255.

\* The process dies: its threads, the queue and the counters are gone, no
\* summary is printed. What it wrote to the output directory stays.
Crash ==
    /\ outcome' = "crash"
    /\ pc' = "done"
    /\ task' = <<>>
    /\ listed' = 0
    /\ entry' = NoEntry
    /\ num_processed_successfully' = 0
    /\ num_failed' = 0
    /\ num_in_progress' = 0
    /\ stopped' = FALSE

\* Lines 195-214: the output directory check (output_dir is input_dir when
\* the flag is not given: then output_is_dir = input_is_dir), then the pool
\* and the counters.
Preflight ==
    /\ Alive /\ pc = "start"
    /\ IF output_is_dir
         THEN pc' = "open" /\ outcome' = outcome
         ELSE pc' = "done" /\ outcome' = "exit1"
    /\ UNCHANGED << pure, args, fs, listed, entry, task,
                    num_processed_successfully, num_failed, num_in_progress,
                    stopped, summary >>

\* Lines 217-218: the directory_iterator is constructed. For an input_dir
\* that is no directory it throws filesystem_error out of Main: main catches
\* it at line 291 and returns EXIT_FAILURE. The unwinding destroys the
\* thread_group without a join and then the io_service its threads are
\* running: the thread destructor detaches or, built to do so, terminates
\* the process, and the threads race with the destruction of the service.
\* Undefined: main returns 1, or the process dies.
OpenDirectory ==
    /\ Alive /\ pc = "open"
    /\ IF input_is_dir
         THEN /\ pc' = "iter"
              /\ UNCHANGED << listed, entry, task, num_processed_successfully,
                              num_failed, num_in_progress, stopped, outcome >>
         ELSE \/ /\ pc' = "done" /\ outcome' = "exit1"
                 /\ UNCHANGED << listed, entry, task, num_processed_successfully,
                                 num_failed, num_in_progress, stopped >>
              \/ Crash
    /\ UNCHANGED << pure, args, fs, summary >>

\* Lines 217-218: the iterator yields the next directory entry.
NextEntry ==
    /\ Alive /\ pc = "iter"
    /\ listed < MaxFiles
    /\ \E e \in Entries : entry' = e
    /\ listed' = listed + 1
    /\ pc' = "filter"
    /\ UNCHANGED << pure, args, fs, task, num_processed_successfully,
                    num_failed, num_in_progress, stopped, summary, outcome >>

\* Lines 219-228: an entry that is no regular file or has another extension
\* is skipped; a candidate is announced and the mutex locked. Nothing below
\* depends on which candidate it is.
Filter ==
    /\ Alive /\ pc = "filter"
    /\ pc' = IF IsCandidate(entry) THEN "check" ELSE "iter"
    /\ entry' = NoEntry
    /\ UNCHANGED << pure, args, fs, listed, task, num_processed_successfully,
                    num_failed, num_in_progress, stopped, summary, outcome >>

\* Line 217: the iterator reaches the end of the directory.
EndOfDirectory ==
    /\ Alive /\ pc = "iter"
    /\ pc' = "stop"
    /\ listed' = 0
    /\ UNCHANGED << pure, args, fs, entry, task,
                    num_processed_successfully, num_failed, num_in_progress,
                    stopped, summary, outcome >>

\* A rate limit that admits one task too many.
QueueFullOffByOne == num_in_progress > threads * 2

\* Line 230: the loop condition of the rate limit.
QueueFull == num_in_progress >= threads * 2

CheckBusy ==
    /\ Alive /\ pc = "check"
    /\ pc' = IF QueueFull THEN "wait" ELSE "incr"
    /\ UNCHANGED << pure, args, fs, listed, entry, task,
                    num_processed_successfully, num_failed, num_in_progress,
                    stopped, summary, outcome >>

\* Line 231: busy.wait(lock) releases the mutex and blocks.
Wait ==
    /\ Alive /\ pc = "wait"
    /\ pc' = "waiting"
    /\ UNCHANGED << pure, args, fs, listed, entry, task,
                    num_processed_successfully, num_failed, num_in_progress,
                    stopped, summary, outcome >>

\* Line 231: a condition variable may wake without a notification.
SpuriousWake ==
    /\ Alive /\ pc = "waiting"
    /\ pc' = "check"
    /\ UNCHANGED << pure, args, fs, listed, entry, task,
                    num_processed_successfully, num_failed, num_in_progress,
                    stopped, summary, outcome >>

\* A task posted without taking a slot.
AdmitUncounted ==
    /\ Alive /\ pc = "incr"
    /\ pc' = "post"
    /\ UNCHANGED << pure, args, fs, listed, entry, task,
                    num_processed_successfully, num_failed, num_in_progress,
                    stopped, summary, outcome >>

\* Line 233.
Admit ==
    /\ Alive /\ pc = "incr"
    /\ num_in_progress' = num_in_progress + 1
    /\ pc' = "post"
    /\ UNCHANGED << pure, args, fs, listed, entry, task,
                    num_processed_successfully, num_failed, stopped, summary,
                    outcome >>

\* Lines 235-249: io_service.post; the lock is released at the end of the
\* loop body.
Post ==
    /\ Alive /\ pc = "post"
    /\ task' = Append(task, NewTask)
    /\ pc' = "iter"
    /\ UNCHANGED << pure, args, fs, listed, entry,
                    num_processed_successfully, num_failed, num_in_progress,
                    stopped, summary, outcome >>

\* Line 251: io_service.stop(). run() returns as soon as possible: a thread
\* finishes the handler it is in and takes no other.
Stop ==
    /\ Alive /\ pc = "stop"
    /\ stopped' = TRUE
    /\ pc' = "join"
    /\ UNCHANGED << pure, args, fs, listed, entry, task,
                    num_processed_successfully, num_failed, num_in_progress,
                    summary, outcome >>

\* Lines 252-254 and 299: join_all returns once no thread is in a handler;
\* the summary is printed and main returns EXIT_SUCCESS.
JoinAndReport ==
    /\ Alive /\ pc = "join"
    /\ Running = {}
    /\ summary' = << num_processed_successfully, num_failed >>
    /\ pc' = "done"
    /\ outcome' = "exit0"
    /\ UNCHANGED << pure, args, fs, listed, entry, task,
                    num_processed_successfully, num_failed, num_in_progress,
                    stopped >>

Producer ==
    \/ Preflight
    \/ OpenDirectory
    \/ NextEntry
    \/ Filter
    \/ EndOfDirectory
    \/ CheckBusy
    \/ Wait
    \/ Admit
    \/ Post
    \/ Stop
    \/ JoinAndReport

----------------------------------------------------------------------------
\* The workers: io_service::run on each thread, the handler of lines 236-248
\* and ConvertFile / WriteFile inside it.

\* Lines 208-209: a thread that is not in a handler takes the oldest one
\* queued, unless the service is stopped.
CanStart(t) ==
    /\ ~stopped
    /\ t \in Tasks
    /\ task[t].st = "enqueued"
    /\ \A u \in 1..(t - 1) : task[u].st # "enqueued"
    /\ Cardinality(Running) < threads

\* Lines 166-184 for a document the parser accepts: on to WriteFile, whose
\* lines 103-108 resolve the output path.
StartOk(t) ==
    /\ Alive /\ CanStart(t)
    /\ \E d \in Docs :
          /\ d.doc = "ok"
          /\ task' = [task EXCEPT ![t].st = "exists", ![t].doc = d.doc,
                                  ![t].path = d.path, ![t].pre = exists(d.path)]
    /\ UNCHANGED << pure, args, fs, pc, listed, entry,
                    num_processed_successfully, num_failed, num_in_progress,
                    stopped, summary, outcome >>

\* A parser that has the output file created before it rejects the
\* document.
StartBadWrites(t) ==
    /\ Alive /\ CanStart(t)
    /\ \E d \in Docs, p \in Paths :
          /\ d.doc = "bad"
          /\ fs' = [fs EXCEPT ![p] = "new"]
          /\ task' = [task EXCEPT ![t].st = "catch", ![t].doc = d.doc,
                                  ![t].err = <<"parse">>]
    /\ UNCHANGED << pure, args, pc, listed, entry,
                    num_processed_successfully, num_failed, num_in_progress,
                    stopped, summary, outcome >>

\* Lines 166-184 for a document that breaks a rule: std::invalid_argument
\* (or bad_lexical_cast) is thrown, and rethrown by line 188.
StartBad(t) ==
    /\ Alive /\ CanStart(t)
    /\ \E d \in Docs :
          /\ d.doc = "bad"
          /\ task' = [task EXCEPT ![t].st = "catch", ![t].doc = d.doc,
                                  ![t].err = <<"parse">>]
    /\ UNCHANGED << pure, args, fs, pc, listed, entry,
                    num_processed_successfully, num_failed, num_in_progress,
                    stopped, summary, outcome >>

\* Line 65: std::string is constructed from the null pointer GetText()
\* returns. Undefined: the library throws std::logic_error, or the process
\* dies.
StartNullText(t) ==
    /\ Alive /\ CanStart(t)
    /\ \E d \in Docs :
          /\ d.doc = "nulltext"
          /\ \/ /\ task' = [task EXCEPT ![t].st = "catch", ![t].doc = d.doc,
                                        ![t].err = <<"logic_error">>]
                /\ UNCHANGED << pc, listed, entry, num_processed_successfully,
                                num_failed, num_in_progress, stopped, outcome >>
             \/ Crash
    /\ UNCHANGED << pure, args, fs, summary >>

\* A WriteFile without the collision check.
CheckExistsSkipped(t) ==
    /\ Alive /\ t \in Tasks /\ task[t].st = "exists"
    /\ task' = [task EXCEPT ![t].st = "write"]
    /\ UNCHANGED << pure, args, fs, pc, listed, entry,
                    num_processed_successfully, num_failed, num_in_progress,
                    stopped, summary, outcome >>

\* Lines 109-112: the collision check.
CheckExists(t) ==
    /\ Alive /\ t \in Tasks /\ task[t].st = "exists"
    /\ IF exists(task[t].path)
         THEN task' = [task EXCEPT ![t].st = "catch",
                                   ![t].err = <<"exists", task[t].path>>]
         ELSE task' = [task EXCEPT ![t].st = "write"]
    /\ UNCHANGED << pure, args, fs, pc, listed, entry,
                    num_processed_successfully, num_failed, num_in_progress,
                    stopped, summary, outcome >>

\* Lines 113-160, the file opened and saved.
WriteSaved(t) ==
    /\ Alive /\ t \in Tasks /\ task[t].st = "write"
    /\ fs' = [fs EXCEPT ![task[t].path] = "new"]
    /\ task' = [task EXCEPT ![t].st = "succ", ![t].io = "ok", ![t].path = "none"]
    /\ UNCHANGED << pure, args, pc, listed, entry,
                    num_processed_successfully, num_failed, num_in_progress,
                    stopped, summary, outcome >>

\* Lines 113-160, the file opened (and so created or truncated) and
\* SaveFile reporting an error: line 158 throws.
WriteSaveFails(t) ==
    /\ Alive /\ t \in Tasks /\ task[t].st = "write"
    /\ fs' = [fs EXCEPT ![task[t].path] = "new"]
    /\ task' = [task EXCEPT ![t].st = "catch", ![t].io = "savefail",
                            ![t].err = <<"write">>, ![t].path = "none"]
    /\ UNCHANGED << pure, args, pc, listed, entry,
                    num_processed_successfully, num_failed, num_in_progress,
                    stopped, summary, outcome >>

\* Lines 113-160, fopen returning null: the result is not tested, SaveFile
\* gets a null FILE* and the shared_ptr's deleter calls fclose(NULL).
\* Undefined: the call returns and WriteFile returns normally, or the
\* process dies.
WriteOpenFails(t) ==
    /\ Alive /\ t \in Tasks /\ task[t].st = "write"
    /\ \/ /\ task' = [task EXCEPT ![t].st = "succ", ![t].io = "openfail",
                                  ![t].path = "none"]
          /\ UNCHANGED << pc, listed, entry, num_processed_successfully,
                          num_failed, num_in_progress, stopped, outcome >>
       \/ Crash
    /\ UNCHANGED << pure, args, fs, summary >>

\* Line 239.
CountSuccess(t) ==
    /\ Alive /\ t \in Tasks /\ task[t].st = "succ"
    /\ num_processed_successfully' = num_processed_successfully + 1
    /\ task' = [task EXCEPT ![t] = Counted(task[t], "succeeded")]
    /\ UNCHANGED << pure, args, fs, pc, listed, entry,
                    num_failed, num_in_progress, stopped, summary, outcome >>

\* Lines 242-244.
CountFailure(t) ==
    /\ Alive /\ t \in Tasks /\ task[t].st = "catch"
    /\ num_failed' = num_failed + 1
    /\ task' = [task EXCEPT ![t] = Counted(task[t], "failed")]
    /\ UNCHANGED << pure, args, fs, pc, listed, entry,
                    num_processed_successfully, num_in_progress, stopped,
                    summary, outcome >>

\* A handler that gives back two slots.
ReleaseTwice(t) ==
    /\ Alive /\ t \in Tasks /\ task[t].st = "dec"
    /\ num_in_progress' = num_in_progress - 2
    /\ task' = [task EXCEPT ![t].st = "notify"]
    /\ UNCHANGED << pure, args, fs, pc, listed, entry,
                    num_processed_successfully, num_failed, stopped, summary,
                    outcome >>

\* Lines 240 and 245.
Release(t) ==
    /\ Alive /\ t \in Tasks /\ task[t].st = "dec"
    /\ num_in_progress' = num_in_progress - 1
    /\ task' = [task EXCEPT ![t].st = "notify"]
    /\ UNCHANGED << pure, args, fs, pc, listed, entry,
                    num_processed_successfully, num_failed, stopped, summary,
                    outcome >>

\* Lines 241 and 246: busy.notify_one() wakes the producer if it is blocked
\* in busy.wait, and does nothing otherwise. The handler returns.
Notify(t) ==
    /\ Alive /\ t \in Tasks /\ task[t].st = "notify"
    /\ pc' = IF pc = "waiting" THEN "check" ELSE pc
    /\ task' = [task EXCEPT ![t] = Returned(task[t])]
    /\ UNCHANGED << pure, args, fs, listed, entry,
                    num_processed_successfully, num_failed, num_in_progress,
                    stopped, summary, outcome >>

Worker(t) ==
    \/ StartOk(t)
    \/ StartBad(t)
    \/ StartNullText(t)
    \/ CheckExists(t)
    \/ WriteSaved(t)
    \/ WriteSaveFails(t)
    \/ WriteOpenFails(t)
    \/ CountSuccess(t)
    \/ CountFailure(t)
    \/ Release(t)
    \/ Notify(t)

Next ==
    \/ Producer
    \/ SpuriousWake
    \/ \E t \in 1..MaxFiles : Worker(t)

Spec == Init /\ [][Next]_vars

\* Lines 228-249: the producer holds the mutex from the lock of line 228
\* (and from its wake-up in busy.wait) until busy.wait releases it or the
\* loop body ends. The handlers never lock it.
MutexHeld == pc \in {"check", "wait", "incr", "post"}

\* Line 113: the "Writing:" line of a task, written before fopen.
WritingLogged(t) ==
    \/ task[t].io # "none"
    \/ task[t].cls \in {"valid", "savefail", "openfail"}

\* The scheduler runs every thread that can take a step; a condition
\* variable is not obliged to wake spuriously.
Fairness ==
    /\ WF_vars(Producer)
    /\ \A t \in 1..MaxFiles : WF_vars(Worker(t))

SpecFair == Init /\ [][Next]_vars /\ Fairness

----------------------------------------------------------------------------
\* Claims about Main and the worker pool.

\* The tasks posted whose outcome is not yet counted.
NonTerminal == {t \in Tasks : task[t].res = "none"}

\* C1. Backpressure bound: at every moment at most 2 * threads posted tasks
\* are short of a terminal state, the in-flight count never exceeds
\* 2 * threads, and the producer increments it only from a value strictly
\* below 2 * threads.
BackpressureBound ==
    /\ [](/\ Cardinality(NonTerminal) <= 2 * threads
          /\ num_in_progress <= 2 * threads)
    /\ [][num_in_progress' = num_in_progress + 1
             => num_in_progress < 2 * threads]_vars

\* The producer is blocked at the gate with 2 * threads tasks in flight.
BackpressureWitness ==
    /\ pc = "waiting"
    /\ num_in_progress = 2 * threads
    /\ Cardinality(NonTerminal) = 2 * threads

\* C2. Clean drain before report: when the summary is printed every posted
\* task has run to its end; none is still queued or running.
CleanDrain ==
    outcome = "exit0" => \A t \in Tasks : task[t].st = "done"

\* The files read and found valid (converted without collision or I/O
\* failure), read and found invalid, and posted but never read.
ValidRead == {t \in Tasks : task[t].cls = "valid"}
InvalidRead == {t \in Tasks : task[t].cls = "invalid"}
Unread == {t \in Tasks : task[t].doc = "none" /\ task[t].cls = "none"}

\* C3. Final tally: when every valid file converts without collision or I/O
\* failure, the summary reports as many successes as there are valid
\* candidate files and as many failures as there are invalid ones (whatever
\* the files never read hold), so the two add up to the number of
\* candidates.
FinalTally ==
    (outcome = "exit0" /\ \A t \in Tasks : task[t].cls # "other")
        => \E k \in 0..Cardinality(Unread) :
              summary = << Cardinality(ValidRead) + k,
                           Cardinality(InvalidRead) + (Cardinality(Unread) - k) >>

\* C4. Termination: under fair scheduling the run reaches its end, and a
\* producer blocked at the gate while the in-flight count is below
\* 2 * threads is eventually woken.
Termination ==
    /\ <>(outcome # "running")
    /\ (pc = "waiting" /\ num_in_progress < 2 * threads) ~> (pc # "waiting")

\* C5. Failure isolation: a file that is invalid, collides or cannot be
\* written is counted as failed and nothing else happens: the process
\* stays alive and ends with exit code 0 (1 only for the pre-flight check).
FailureIsolation ==
    /\ input_is_dir => outcome # "crash"
    /\ outcome = "exit1" => ~output_is_dir \/ ~input_is_dir
    /\ \A t \in Tasks :
          task[t].cls \in {"invalid", "collision", "savefail", "openfail"}
              => task[t].res = "failed"

\* C6. Exactly-once outcome: every counted task is counted in one counter,
\* once; a queued task has no outcome; and when the run ends every posted
\* task has been counted.
ExactlyOnceOutcome ==
    /\ num_processed_successfully
          = Cardinality({t \in Tasks : task[t].res = "succeeded"})
    /\ num_failed = Cardinality({t \in Tasks : task[t].res = "failed"})
    /\ \A t \in Tasks : task[t].st = "enqueued" => task[t].res = "none"
    /\ outcome = "exit0" => \A t \in Tasks : task[t].res # "none"

\* C7. No overwrite of an existing output: a task that found a file at its
\* output path when it started never reaches the write, ends failed with
\* the collision error naming the path, and a file that existed before the
\* run keeps its contents.
NoOverwrite ==
    /\ \A t \in Tasks :
          task[t].pre =>
              /\ task[t].st \in {"exists", "catch", "dec", "notify"}
              /\ task[t].io = "none"
              /\ task[t].st = "catch" => task[t].err = <<"exists", task[t].path>>
              /\ task[t].res # "none" =>
                    task[t].res = "failed" /\ task[t].cls = "collision"
    /\ \A p \in preexisting : fs[p] = "old"

\* A task met a file that existed before the run and was counted as failed.
NoOverwriteWitness ==
    \E t \in Tasks :
        /\ task[t].pre
        /\ preexisting # {}
        /\ task[t].res = "failed"
        /\ task[t].cls = "collision"

\* C12. Pre-flight abort: when input_dir is no directory the run ends
\* with exit code 1, whatever output_dir is, and no task is ever admitted
\* or posted.
PreflightAbort ==
    ~input_is_dir =>
        /\ outcome \in {"running", "exit1"}
        /\ pc \in {"start", "open", "done"}
        /\ task = <<>>
        /\ num_in_progress = 0

\* C13. Gate guarded as a unit: while the producer holds the mutex, from
\* its check of the in-flight count to its wait or its increment, no other
\* thread changes the count.
GateGuarded ==
    [][(MutexHeld /\ pc' = pc) => num_in_progress' = num_in_progress]_vars

\* C14. No overwrite within a run: a task opens and writes its output path
\* only when no file is there at the moment of the write, be it a file from
\* before the run or one another task of the run created.
NoOverwriteWithinRun ==
    [][\A t \in 1..MaxFiles :
          (/\ t \in Tasks /\ task[t].st = "write"
           /\ t \in DOMAIN task' /\ task'[t].io \in {"ok", "savefail"})
              => ~exists(task[t].path)]_vars

\* The tasks whose document the parser rejected.
ParseFailed(t) == task[t].doc \in {"bad", "nulltext"} \/ task[t].cls = "invalid"

\* C15. Stage short-circuit: a task whose document fails a parser rule
\* never resolves a path, never opens or writes a file and ends failed;
\* the output directory changes only in the write of a task whose document
\* the parser accepted.
NoOutputOnParseFailure ==
    /\ [](\A t \in Tasks :
            ParseFailed(t) =>
                /\ task[t].st \in {"catch", "dec", "notify", "done"}
                /\ task[t].path = "none" /\ ~task[t].pre
                /\ task[t].io = "none"
                /\ task[t].res \in {"none", "failed"})
    /\ [][fs' # fs =>
            \E t \in Tasks :
                /\ task[t].st = "write" /\ task[t].doc = "ok"
                /\ task'[t].st # "write"
                /\ \A u \in Tasks \ {t} : task'[u] = task[u]]_vars

\* A task failed on a parser rule and was counted, and the output directory
\* is as it was before the run.
NoOutputOnParseFailureWitness ==
    /\ \E t \in Tasks : task[t].cls = "invalid" /\ task[t].res = "failed"
    /\ \A p \in Paths : fs[p] = IF p \in preexisting THEN "old" ELSE "absent"

\* A regular file whose extension is .gpx in any mix of cases.
GpxFile(e) ==
    /\ e.regular
    /\ Len(e.ext) = 4
    /\ e.ext[1] = "."
    /\ e.ext[2] \in {"g", "G"} /\ e.ext[3] \in {"p", "P"} /\ e.ext[4] \in {"x", "X"}

\* An entry goes on to the admission gate exactly if it is a .gpx file.
CandidateFilter ==
    [][(pc = "filter" /\ pc' # "filter" /\ outcome' = "running")
          => pc' = IF GpxFile(entry) THEN "check" ELSE "iter"]_vars

\* One task is posted for an entry that went on to the gate, and the gate
\* is left only by posting it.
DispatchedOnce ==
    /\ [][Len(task') > Len(task)
            => pc = "post" /\ pc' = "iter" /\ Len(task') = Len(task) + 1]_vars
    /\ [][(pc \in {"check", "wait", "waiting", "incr"} /\ outcome' = "running")
            => pc' \in {"check", "wait", "waiting", "incr", "post"}]_vars

\* C16. Candidate selection: an entry is dispatched if and only if it is a
\* regular file with the extension .gpx in any case: only such an entry
\* goes on to the gate, one task is posted for it, and it is posted.
CandidateSelection ==
    /\ CandidateFilter
    /\ DispatchedOnce
    /\ (pc = "check") ~> (pc = "post" \/ outcome = "crash")

\* C17. "Writing:" only on success: a task that wrote the "Writing:" line
\* has saved its file, and a task counted as failed wrote no such line.
WritingOnlyOnSuccess ==
    \A t \in Tasks :
        /\ WritingLogged(t) =>
              task[t].io \in {"none", "ok"} /\ task[t].cls \in {"none", "valid"}
        /\ task[t].res = "failed" => ~WritingLogged(t)

\* C19. Counter monotonicity: the succeeded and the failed count start at
\* 0, every step of the running process leaves each unchanged or adds 1,
\* and the in-flight count is never negative.
CounterMonotonicity ==
    /\ [](/\ pc = "start" => num_processed_successfully = 0 /\ num_failed = 0
          /\ num_in_progress >= 0)
    /\ [][outcome' # "crash" =>
            /\ num_processed_successfully' - num_processed_successfully \in {0, 1}
            /\ num_failed' - num_failed \in {0, 1}]_vars

\* Both counters have counted while a task is still in flight.
CounterMonotonicityWitness ==
    /\ num_processed_successfully >= 1
    /\ num_failed >= 1
    /\ num_in_progress >= 1

\* The tasks admitted so far: those posted and the one the producer has
\* taken a slot for and is about to post.
Admitted == Len(task) + (IF pc = "post" THEN 1 ELSE 0)

\* C20. Accounting: the admitted tasks without a recorded outcome are never
\* fewer than 0 and never more than the in-flight count.
AccountingInvariant ==
    /\ 0 <= Admitted - (num_processed_successfully + num_failed)
    /\ Admitted - (num_processed_successfully + num_failed) <= num_in_progress

\* A handler has recorded its outcome and still holds its slot, while
\* another task waits in the queue.
AccountingInvariantWitness ==
    /\ \E t \in Tasks : task[t].st = "dec"
    /\ \E t \in Tasks : task[t].st = "enqueued"
    /\ Admitted - (num_processed_successfully + num_failed) < num_in_progress

----------------------------------------------------------------------------
\* The output path: WriteFile lines 103-108 and NormalizeFilename.

\* The main program at rest, for the specifications of single functions.
MainIdle ==
    /\ threads = 1
    /\ input_is_dir = TRUE
    /\ output_is_dir = TRUE
    /\ preexisting = {}
    /\ fs = [p \in Paths |-> "absent"]
    /\ pc = "start"
    /\ listed = 0
    /\ entry = NoEntry
    /\ task = <<>>
    /\ num_processed_successfully = 0
    /\ num_failed = 0
    /\ num_in_progress = 0
    /\ stopped = FALSE
    /\ summary = <<>>
    /\ outcome = "running"

\* All sequences over S of length at most n.
SeqsUpTo(S, n) == UNION {[1..k -> S] : k \in 0..n}

DigitChars == <<"0", "1", "2", "3", "4", "5", "6", "7", "8", "9">>

DigitChar(n) == DigitChars[n + 1]

\* The decimal digits of a natural number.
RECURSIVE Decimal(_)
Decimal(n) ==
    IF n < 10 THEN << DigitChar(n) >>
    ELSE Decimal(n \div 10) \o << DigitChar(n % 10) >>

TwoDigits(n) == << DigitChar(n \div 10), DigitChar(n % 10) >>

\* Line 104: std::put_time(&time, "%Y-%m-%d")
put_time(time) ==
    Decimal(time.year) \o <<"-">> \o TwoDigits(time.mon) \o <<"-">>
        \o TwoDigits(time.mday)

\* The characters the comment at line 95 calls illegal in a file name.
IllegalCharacters == {"<", ">", ":", "\"", "/", "\\", "|", "?", "*"}

\* Line 97: the character class [<>:"\/\|\?\*] of the regular expression.
\* In it \/ \| \? \* are the escaped characters / | ? *, so the class holds
\* no backslash.
RegexClass == {"<", ">", ":", "\"", "/", "|", "?", "*"}

\* Line 97: boost::regex_replace(filename, regex, "_")
regex_replace(s) ==
    [i \in 1..Len(s) |-> IF s[i] \in RegexClass THEN "_" ELSE s[i]]

\* std::isspace in the classic locale, as boost::algorithm::trim_copy uses it.
IsSpace(c) == c \in {" ", "\t", "\n", "\r"}

\* Line 96: boost::algorithm::trim_copy
trim_copy(s) ==
    LET keep == {i \in 1..Len(s) : ~IsSpace(s[i])}
        first == CHOOSE i \in keep : \A j \in keep : i <= j
        last == CHOOSE i \in keep : \A j \in keep : j <= i
    IN  IF keep = {} THEN <<>> ELSE SubSeq(s, first, last)

\* Lines 94-98.
NormalizeFilename(filename) == trim_copy(regex_replace(filename))

\* Lines 103-104: basename.
Basename(name, time) == put_time(time) \o <<" ">> \o name

\* Lines 105-108: the last component of output_path.
OutputFilename(name, time) ==
    NormalizeFilename(Basename(name, time) \o <<".", "k", "m", "l">>)

\* The track names and the times of the inputs.
NameChars == IllegalCharacters \cup {" ", "\t", "a", "_"}

\* Line 65: ParseName returns the text node of the name element, which the
\* XML parser creates only for text that is not all whitespace.
Names == {n \in SeqsUpTo(NameChars, MaxNameLen) : \E i \in 1..Len(n) : ~IsSpace(n[i])}

Times == { [year |-> 2023, mon |-> 6, mday |-> 1],
           [year |-> 1999, mon |-> 12, mday |-> 31] }

InitName ==
    /\ MainIdle
    /\ cs = NoRendering
    /\ pd = NoParse
    /\ \E n \in Names, t \in Times :
          nf = [pc |-> "resolve", name |-> n, time |-> t, filename |-> <<>>]

\* WriteFile, lines 103-108.
ResolvePath ==
    /\ nf.pc = "resolve"
    /\ nf' = [nf EXCEPT !.pc = "resolved",
                        !.filename = OutputFilename(nf.name, nf.time)]
    /\ UNCHANGED << main, cs, pd >>

NextName == ResolvePath

SpecName == InitName /\ [][NextName]_vars

\* The output file name without its ".kml" suffix.
SanitizedBasename == SubSeq(nf.filename, 1, Len(nf.filename) - 4)

\* C8. Forbidden-character sanitization: the file name of the output path
\* holds none of the nine characters < > : " / \ | ? * .
NoForbiddenCharacter ==
    nf.pc = "resolved" =>
        \A i \in 1..Len(nf.filename) : nf.filename[i] \notin IllegalCharacters

\* C9. Whitespace trimming: the sanitized basename neither begins nor ends
\* with whitespace.
BasenameTrimmed ==
    nf.pc = "resolved" =>
        \/ SanitizedBasename = <<>>
        \/ /\ ~IsSpace(SanitizedBasename[1])
           /\ ~IsSpace(SanitizedBasename[Len(SanitizedBasename)])

----------------------------------------------------------------------------
\* The coordinates: ParseCoordinates (lines 68-92) and the coordinate string
\* of WriteFile (lines 145-154).

\* The digits std::fixed keeps after the decimal point (line 146).
Precision == 7

Scale == 10 ^ Precision

\* An attribute or element that is not there.
Missing == <<"missing">>

DigitValue(c) == CHOOSE n \in 0..9 : DigitChar(n) = c

IsDigit(c) == \E n \in 0..9 : DigitChar(n) = c

\* The value of a string of digits.
RECURSIVE Natural(_)
Natural(s) ==
    IF s = <<>> THEN 0
    ELSE Natural(SubSeq(s, 1, Len(s) - 1)) * 10 + DigitValue(s[Len(s)])

Unsigned(s) == IF s # <<>> /\ s[1] \in {"-", "+"} THEN Tail(s) ELSE s

DotAt(s) == {i \in 1..Len(s) : s[i] = "."}

\* A decimal number: an optional sign, digits, at most one decimal point,
\* at least one digit.
IsDecimal(s) ==
    LET u == Unsigned(s)
    IN  /\ \A i \in 1..Len(u) : IsDigit(u[i]) \/ u[i] = "."
        /\ Cardinality(DotAt(u)) <= 1
        /\ \E i \in 1..Len(u) : IsDigit(u[i])

IsNaN(s) == Unsigned(s) = <<"n", "a", "n">>

\* Lines 87-89: boost::lexical_cast<double>. A double is kept as its sign,
\* its whole part and the digits of its fraction.
lexical_cast(s) ==
    LET u == Unsigned(s)
        d == IF DotAt(u) = {} THEN Len(u) + 1 ELSE CHOOSE i \in DotAt(u) : TRUE
    IN  IF IsNaN(s)
          THEN [ok |-> TRUE, nan |-> TRUE, neg |-> s[1] = "-",
                whole |-> 0, frac |-> <<>>]
        ELSE IF IsDecimal(s)
          THEN [ok |-> TRUE, nan |-> FALSE, neg |-> s[1] = "-",
                whole |-> Natural(SubSeq(u, 1, d - 1)),
                frac |-> SubSeq(u, d + 1, Len(u))]
          ELSE [ok |-> FALSE, nan |-> FALSE, neg |-> FALSE,
                whole |-> 0, frac |-> <<>>]

\* Lines 77-89: one trkpt.
ParsePoint(p) ==
    IF p.lat = Missing \/ p.lon = Missing
      THEN [ok |-> FALSE, what |-> "Missing lat/lon attributes"]
    ELSE IF p.ele = Missing
      THEN [ok |-> FALSE, what |-> "Missing ele element"]
    ELSE IF ~lexical_cast(p.lat).ok \/ ~lexical_cast(p.lon).ok
              \/ ~lexical_cast(p.ele).ok
      THEN [ok |-> FALSE, what |-> "bad lexical cast"]
    ELSE [ok |-> TRUE,
          coordinate |-> [lat |-> lexical_cast(p.lat),
                          lon |-> lexical_cast(p.lon),
                          alt |-> lexical_cast(p.ele)]]

\* Lines 74-91: the points of the segment, in order; the first point that
\* fails ends the parse.
ParseCoordinates(points) ==
    LET bad == {i \in 1..Len(points) : ~ParsePoint(points[i]).ok}
    IN  IF bad = {}
          THEN [ok |-> TRUE,
                coordinates |-> [i \in 1..Len(points) |-> ParsePoint(points[i]).coordinate]]
          ELSE [ok |-> FALSE,
                what |-> ParsePoint(points[CHOOSE i \in bad : \A j \in bad : i <= j]).what]

\* The value rounded to Precision digits after the point, the fraction in
\* units of 10^-Precision.
Rounded(v) ==
    LET kept == IF Len(v.frac) > Precision THEN SubSeq(v.frac, 1, Precision) ELSE v.frac
        up == Len(v.frac) > Precision /\ DigitValue(v.frac[Precision + 1]) >= 5
        f == Natural(kept) * 10 ^ (Precision - Len(kept)) + (IF up THEN 1 ELSE 0)
    IN  [neg |-> v.neg, nan |-> v.nan,
         whole |-> v.whole + f \div Scale, frac |-> f % Scale]

\* Lines 146-149: operator<< of a double with std::fixed and precision 7.
Fixed(v) ==
    IF v.nan THEN (IF v.neg THEN <<"-">> ELSE <<>>) \o <<"n", "a", "n">>
    ELSE (IF v.neg THEN <<"-">> ELSE <<>>)
            \o Decimal(Rounded(v).whole) \o <<".">>
            \o [i \in 1..Precision |->
                   DigitChar((Rounded(v).frac \div (10 ^ (Precision - i))) % 10)]

\* A rendering with latitude first.
RenderLatitudeFirst(c) ==
    Fixed(c.lat) \o <<",">> \o Fixed(c.lon) \o <<",">> \o Fixed(c.alt) \o <<" ">>

\* Lines 148-149: one coordinate of the string.
Render(c) ==
    Fixed(c.lon) \o <<",">> \o Fixed(c.lat) \o <<",">> \o Fixed(c.alt) \o <<" ">>

\* Lines 145-150.
RECURSIVE CoordinateString(_)
CoordinateString(coordinates) ==
    IF coordinates = <<>> THEN <<>>
    ELSE Render(Head(coordinates)) \o CoordinateString(Tail(coordinates))

\* The track points of the inputs.
Points ==
    { [lat |-> <<"4", "7", ".", "0">>, lon |-> <<"8", ".", "0">>, ele |-> <<"4", "0", "0", ".", "0">>],
      [lat |-> <<"4", "7", ".", "0", "0", "0", "1">>, lon |-> <<"8", ".", "0", "0", "0", "1">>, ele |-> <<"4", "0", "5", ".", "0">>],
      [lat |-> <<"-", "0", ".", "5">>, lon |-> <<"1", "2">>, ele |-> <<"0", ".", "9", "9", "9", "9", "9", "9", "9", "6">>],
      [lat |-> <<"-", "3", "3", ".", "2", "5">>, lon |-> <<"1", "5", "1", ".", "1", "2", "5">>, ele |-> <<"-", "0", ".", "0">>],
      [lat |-> <<"n", "a", "n">>, lon |-> <<"8", ".", "0">>, ele |-> <<"1">>],
      [lat |-> <<"4", "7", ".", "0">>, lon |-> <<"8", ",", "5">>, ele |-> <<"4", "0", "0", ".", "0">>],
      [lat |-> Missing, lon |-> <<"8", ".", "0">>, ele |-> <<"4", "0", "0", ".", "0">>],
      [lat |-> <<"4", "7", ".", "0">>, lon |-> <<"8", ".", "0">>, ele |-> Missing] }

InitCoord ==
    /\ MainIdle
    /\ nf = NoResolution
    /\ pd = NoParse
    /\ \E pts \in SeqsUpTo(Points, MaxPoints) :
          cs = [pc |-> "parse", points |-> pts, coordinates |-> <<>>,
                what |-> "", out |-> <<>>]

\* ConvertFile line 184, the parse accepted.
ParseAccepted ==
    /\ cs.pc = "parse"
    /\ ParseCoordinates(cs.points).ok
    /\ cs' = [cs EXCEPT !.pc = "write",
                        !.coordinates = ParseCoordinates(cs.points).coordinates]
    /\ UNCHANGED << main, nf, pd >>

\* ConvertFile line 184, the parse throwing.
ParseRejected ==
    /\ cs.pc = "parse"
    /\ ~ParseCoordinates(cs.points).ok
    /\ cs' = [cs EXCEPT !.pc = "failed",
                        !.what = ParseCoordinates(cs.points).what]
    /\ UNCHANGED << main, nf, pd >>

\* WriteFile lines 145-154.
WriteCoordinates ==
    /\ cs.pc = "write"
    /\ cs' = [cs EXCEPT !.pc = "written",
                        !.out = CoordinateString(cs.coordinates)]
    /\ UNCHANGED << main, nf, pd >>

NextCoord ==
    \/ ParseAccepted
    \/ ParseRejected
    \/ WriteCoordinates

SpecCoord == InitCoord /\ [][NextCoord]_vars

\* The pieces of s between the occurrences of the character c.
RECURSIVE Split(_, _)
Split(s, c) ==
    LET at == {i \in 1..Len(s) : s[i] = c}
        k == CHOOSE i \in at : \A j \in at : i <= j
    IN  IF at = {} THEN << s >>
        ELSE << SubSeq(s, 1, k - 1) >> \o Split(SubSeq(s, k + 1, Len(s)), c)

\* Digits, a decimal point, exactly seven digits; a minus sign may lead.
SevenFractionalDigits(f) ==
    LET u == IF f # <<>> /\ f[1] = "-" THEN Tail(f) ELSE f
    IN  /\ Len(u) >= Precision + 2
        /\ u[Len(u) - Precision] = "."
        /\ \A i \in 1..Len(u) : i # Len(u) - Precision => IsDigit(u[i])

\* Every lat, lon and ele of the input is a decimal number.
AllDecimal ==
    \A i \in 1..Len(cs.points) :
        /\ IsDecimal(cs.points[i].lat)
        /\ IsDecimal(cs.points[i].lon)
        /\ IsDecimal(cs.points[i].ele)

\* C10. Coordinate sequence: for a valid input of N points the coordinate
\* string is N entries, each followed by one space, in the input order;
\* entry i is three comma-separated numbers with seven fractional digits
\* whose values are the longitude, the latitude and the altitude of point i.
CoordinateSequence ==
    (cs.pc = "written" /\ AllDecimal) =>
        LET entries == Split(cs.out, " ")
            N == Len(cs.points)
        IN  /\ Len(entries) = N + 1
            /\ entries[N + 1] = <<>>
            /\ \A i \in 1..N :
                  LET fields == Split(entries[i], ",")
                  IN  /\ Len(fields) = 3
                      /\ \A j \in 1..3 : SevenFractionalDigits(fields[j])
                      /\ Rounded(lexical_cast(fields[1])) = Rounded(lexical_cast(cs.points[i].lon))
                      /\ Rounded(lexical_cast(fields[2])) = Rounded(lexical_cast(cs.points[i].lat))
                      /\ Rounded(lexical_cast(fields[3])) = Rounded(lexical_cast(cs.points[i].ele))

\* The scenario of two points (47.0, 8.0, 400.0) and (47.0001, 8.0001, 405.0).
CoordinateSequenceWitness ==
    /\ cs.pc = "written"
    /\ AllDecimal
    /\ Len(cs.points) = 2
    /\ cs.points[1].lat = <<"4", "7", ".", "0">>
    /\ cs.points[2].lon = <<"8", ".", "0", "0", "0", "1">>
    /\ cs.out = 
         <<"8",".","0","0","0","0","0","0","0",",","4","7",".","0","0","0","0","0","0","0",",","4","0","0",".","0","0","0","0","0","0","0"," ","8",".","0","0","0","1","0","0","0",",","4","7",".","0","0","0","1","0","0","0",",","4","0","5",".","0","0","0","0","0","0","0"," ">>

----------------------------------------------------------------------------
\* The parse of one document: ConvertFile lines 166-184 with ParseTime,
\* ParseName and ParseCoordinates.

\* What a document can hold. Each field says what the parser finds when it
\* looks for the element:
\*   loads     LoadFile succeeds,
\*   gpx, metadata, trk, trkseg   the element is there,
\*   time      "absent", "notext" (an element without text), "bad" (a text
\*             that is no timestamp) or "ok",
\*   name      "absent", "notext" or "ok",
\*   points    the trkpt elements of the segment.
Documents ==
    [loads : BOOLEAN, gpx : BOOLEAN, metadata : BOOLEAN,
     time : {"absent", "notext", "bad", "ok"}, trk : BOOLEAN,
     name : {"absent", "notext", "ok"}, trkseg : BOOLEAN,
     points : SeqsUpTo(Points, MaxPoints)]

Throws(what) == [kind |-> "throw", what |-> what]

\* A std::string built from the null pointer GetText() returns: undefined.
NullText == [kind |-> "null", what |-> "GetText() is null"]

Accepted == [kind |-> "accepted", what |-> ""]

\* Lines 42-58.
ParseTime(doc) ==
    IF ~doc.metadata THEN Throws("Missing metadata element")
    ELSE IF doc.time = "absent" THEN Throws("Missing metadata time element")
    ELSE IF doc.time = "notext" THEN NullText
    ELSE IF doc.time = "bad" THEN Throws("the text of the time element")
    ELSE Accepted

\* Lines 60-66.
ParseName(doc) ==
    IF doc.name = "absent" THEN Throws("Missing name element")
    ELSE IF doc.name = "notext" THEN NullText
    ELSE Accepted

\* Lines 68-72, then the loop of lines 74-91.
ParseSegment(doc) ==
    IF ~doc.trkseg THEN Throws("Missing trkseg element")
    ELSE IF ~ParseCoordinates(doc.points).ok
      THEN Throws(ParseCoordinates(doc.points).what)
    ELSE Accepted

\* Lines 166-184: the checks of ConvertFile in the order it makes them.
ParseDocument(doc) ==
    IF ~doc.loads THEN Throws("Failed reading XML file")
    ELSE IF ~doc.gpx THEN Throws("Missing root element")
    ELSE IF ParseTime(doc) # Accepted THEN ParseTime(doc)
    ELSE IF ~doc.trk THEN Throws("Missing trk element")
    ELSE IF ParseName(doc) # Accepted THEN ParseName(doc)
    ELSE ParseSegment(doc)

InitParse ==
    /\ MainIdle
    /\ nf = NoResolution
    /\ cs = NoRendering
    /\ \E d \in Documents : pd = [pc |-> "parse", doc |-> d, result |-> Accepted]

\* The parse throws std::invalid_argument or boost::bad_lexical_cast; line
\* 187 catches it.
ParseThrows ==
    /\ pd.pc = "parse"
    /\ ParseDocument(pd.doc).kind = "throw"
    /\ pd' = [pd EXCEPT !.pc = "failed", !.result = ParseDocument(pd.doc)]
    /\ UNCHANGED << main, nf, cs >>

\* Lines 51 and 65 with a null GetText(): the library throws
\* std::logic_error, which line 187 catches, or the process dies.
ParseNullText ==
    /\ pd.pc = "parse"
    /\ ParseDocument(pd.doc).kind = "null"
    /\ \/ pd' = [pd EXCEPT !.pc = "failed",
                           !.result = Throws("basic_string: construction from null is not valid")]
       \/ pd' = [pd EXCEPT !.pc = "crashed", !.result = NullText]
    /\ UNCHANGED << main, nf, cs >>

\* Lines 183-186: the parser accepted the document; WriteFile is next.
ParseAccepts ==
    /\ pd.pc = "parse"
    /\ ParseDocument(pd.doc) = Accepted
    /\ pd' = [pd EXCEPT !.pc = "write"]
    /\ UNCHANGED << main, nf, cs >>

NextParse ==
    \/ ParseThrows
    \/ ParseNullText
    \/ ParseAccepts

SpecParse == InitParse /\ [][NextParse]_vars

\* The rules in the order the parser is to apply them: 1 gpx root,
\* 2 metadata, 3 time present, 4 time parsable, 5 first trk, 6 name with
\* text, 7 trkseg, then for point i the rules 5 + 3 * i (lat and lon), 
\* 6 + 3 * i (ele) and 7 + 3 * i (the three numbers).
Violated(doc) ==
    {r \in 1..7 :
        \/ r = 1 /\ ~doc.gpx
        \/ r = 2 /\ ~doc.metadata
        \/ r = 3 /\ doc.time = "absent"
        \/ r = 4 /\ doc.time \in {"notext", "bad"}
        \/ r = 5 /\ ~doc.trk
        \/ r = 6 /\ doc.name \in {"absent", "notext"}
        \/ r = 7 /\ ~doc.trkseg}
    \cup {5 + 3 * i : i \in {j \in 1..Len(doc.points) :
                               doc.points[j].lat = Missing \/ doc.points[j].lon = Missing}}
    \cup {6 + 3 * i : i \in {j \in 1..Len(doc.points) : doc.points[j].ele = Missing}}
    \cup {7 + 3 * i : i \in {j \in 1..Len(doc.points) :
                               \E f \in {"lat", "lon", "ele"} :
                                   /\ doc.points[j][f] # Missing
                                   /\ ~lexical_cast(doc.points[j][f]).ok}}

FirstViolated(doc) == CHOOSE r \in Violated(doc) : \A q \in Violated(doc) : r <= q

\* The error that names a rule.
RuleError(r) ==
    CASE r = 1 -> "Missing root element"
      [] r = 2 -> "Missing metadata element"
      [] r = 3 -> "Missing metadata time element"
      [] r = 4 -> "the text of the time element"
      [] r = 5 -> "Missing trk element"
      [] r = 6 -> "Missing name element"
      [] r = 7 -> "Missing trkseg element"
      [] r > 7 /\ r % 3 = 2 -> "Missing lat/lon attributes"
      [] r > 7 /\ r % 3 = 0 -> "Missing ele element"
      [] OTHER -> "bad lexical cast"

\* C11. First-violated-rule reporting: a document that loads and violates
\* one or more rules ends failed, and the error names the first rule it
\* violates in the order gpx, metadata, time present, time parsable, trk,
\* name, trkseg, then per point lat/lon, ele, numbers.
FirstViolatedRule ==
    (pd.pc \notin {"off", "parse"} /\ pd.doc.loads /\ Violated(pd.doc) # {})
        => pd.result = Throws(RuleError(FirstViolated(pd.doc)))

\* C18. Name element without text: a document that passes every rule
\* before the name and whose name element has no text ends failed with the
\* missing-name error.
NameWithoutText ==
    (/\ pd.pc \notin {"off", "parse"}
     /\ pd.doc.loads /\ pd.doc.name = "notext"
     /\ Violated(pd.doc) \cap (1..5) = {})
        => pd.pc = "failed" /\ pd.result = Throws("Missing name element")

====
